---- MODULE Spec2Model ----
(***************************************************************************)
(* Model of the AI-EmergencyShield prediction service (src/ai/predict.py): *)
(* artifact loading at start-up, input preprocessing, the per-disaster     *)
(* classifiers, the risk interpreter, the recommendation rules, and the    *)
(* Flask endpoints that expose them.                                       *)
(*                                                                         *)
(* Representation.  A Python str that the code transforms (the district)   *)
(* is a sequence of one-character strings, so that str.title() is modelled *)
(* character by character.  A probability is an integer number of          *)
(* ten-thousandths (ProbOne = 1.0).  A Python exception is a record        *)
(* [exc, text, field, districts, via]: its class, the message of the       *)
(* innermost exception, the field or district the message names, and the   *)
(* prefixes added by the handlers that re-raised it (outermost first).     *)
(***************************************************************************)
EXTENDS Integers, Sequences, FiniteSets, TLC

VARIABLES
    files,              \* content of model_dir: artifact -> "ok" | "missing" | "corrupt"
    clock,              \* months elapsed since the process was started
    hash_seed,          \* the process's string hash seed (iteration order of a set of str)
    nan_policy,         \* what the installed classifiers do with a NaN feature
    prediction_service, \* module global: "unset" before import, then "object" or "None"
    models,             \* self.models: the set of disaster types with a loaded classifier
    scaler,             \* self.scaler: "None" or "loaded"
    label_encoders,     \* self.label_encoders: the set of keys of the loaded dict
    feature_columns,    \* self.feature_columns: the list of column names
    call,               \* the service-method call of the last request, when and its outcome
    response,           \* the last HTTP response
    had_failure,        \* a request was answered with an error since start-up
    probe               \* input and output of the last direct call of a helper method

vars == <<files, clock, hash_seed, nan_policy, prediction_service, models, scaler,
          label_encoders, feature_columns, call, response, had_failure, probe>>

(***************************************************************************)
(* Bounds of the model.                                                    *)
(***************************************************************************)
MaxBatch == 2

MaxTicks == 1

(***************************************************************************)
(* Generic helpers.                                                        *)
(***************************************************************************)
Range(s) == {s[i] : i \in 1..Len(s)}

RECURSIVE IndexOf(_, _)
IndexOf(x, s) ==
    IF s = <<>> THEN 0
    ELSE IF Head(s) = x THEN 1
    ELSE LET r == IndexOf(x, Tail(s)) IN IF r = 0 THEN 0 ELSE r + 1

NoDuplicates(s) == \A i, j \in 1..Len(s) : i # j => s[i] # s[j]

(***************************************************************************)
(* Python str, character by character.                                     *)
(***************************************************************************)
LowerCase == <<"a","b","c","d","e","f","g","h","i","j","k","l","m",
               "n","o","p","q","r","s","t","u","v","w","x","y","z">>

UpperCase == <<"A","B","C","D","E","F","G","H","I","J","K","L","M",
               "N","O","P","Q","R","S","T","U","V","W","X","Y","Z">>

LowerSet == Range(LowerCase)

UpperSet == Range(UpperCase)

UpperOf == [c \in LowerSet |-> UpperCase[IndexOf(c, LowerCase)]]

LowerOf == [c \in UpperSet |-> LowerCase[IndexOf(c, UpperCase)]]

IsCased(c) == c \in LowerSet \/ c \in UpperSet

ToUpper(c) == IF c \in LowerSet THEN UpperOf[c] ELSE c

ToLower(c) == IF c \in UpperSet THEN LowerOf[c] ELSE c

StrLower(s) == [i \in 1..Len(s) |-> ToLower(s[i])]

\* str.capitalize(): the first character upper-cased, the rest lowered
StrCapitalize(s) == [i \in 1..Len(s) |-> IF i = 1 THEN ToUpper(s[i]) ELSE ToLower(s[i])]

\* str.title(): a cased character that follows a cased character is lowered,
\* every other character is title-cased.
StrTitle(s) ==
    [i \in 1..Len(s) |->
        IF i > 1 /\ IsCased(s[i - 1]) THEN ToLower(s[i]) ELSE ToUpper(s[i])]

(***************************************************************************)
(* The fixed regions.                                                      *)
(***************************************************************************)
D_Colombo == <<"C","o","l","o","m","b","o">>
D_Gampaha == <<"G","a","m","p","a","h","a">>
D_Kalutara == <<"K","a","l","u","t","a","r","a">>
D_Kandy == <<"K","a","n","d","y">>
D_Matale == <<"M","a","t","a","l","e">>
D_Nuwara_Eliya == <<"N","u","w","a","r","a"," ","E","l","i","y","a">>
D_Galle == <<"G","a","l","l","e">>
D_Matara == <<"M","a","t","a","r","a">>
D_Hambantota == <<"H","a","m","b","a","n","t","o","t","a">>
D_Jaffna == <<"J","a","f","f","n","a">>
D_Kilinochchi == <<"K","i","l","i","n","o","c","h","c","h","i">>
D_Mannar == <<"M","a","n","n","a","r">>
D_Mullaitivu == <<"M","u","l","l","a","i","t","i","v","u">>
D_Vavuniya == <<"V","a","v","u","n","i","y","a">>
D_Batticaloa == <<"B","a","t","t","i","c","a","l","o","a">>
D_Ampara == <<"A","m","p","a","r","a">>
D_Trincomalee == <<"T","r","i","n","c","o","m","a","l","e","e">>
D_Kurunegala == <<"K","u","r","u","n","e","g","a","l","a">>
D_Puttalam == <<"P","u","t","t","a","l","a","m">>
D_Anuradhapura == <<"A","n","u","r","a","d","h","a","p","u","r","a">>
D_Polonnaruwa == <<"P","o","l","o","n","n","a","r","u","w","a">>
D_Badulla == <<"B","a","d","u","l","l","a">>
D_Monaragala == <<"M","o","n","a","r","a","g","a","l","a">>
D_Ratnapura == <<"R","a","t","n","a","p","u","r","a">>
D_Kegalle == <<"K","e","g","a","l","l","e">>

sri_lankan_districts ==
    << D_Colombo, D_Gampaha, D_Kalutara, D_Kandy, D_Matale, D_Nuwara_Eliya,
       D_Galle, D_Matara, D_Hambantota, D_Jaffna, D_Kilinochchi, D_Mannar,
       D_Mullaitivu, D_Vavuniya, D_Batticaloa, D_Ampara, D_Trincomalee,
       D_Kurunegala, D_Puttalam, D_Anuradhapura, D_Polonnaruwa,
       D_Badulla, D_Monaragala, D_Ratnapura, D_Kegalle >>

flood_prone_districts == {D_Colombo, D_Gampaha, D_Kalutara, D_Ratnapura, D_Kegalle}

landslide_prone_districts ==
    {D_Kandy, D_Matale, D_Nuwara_Eliya, D_Ratnapura, D_Kegalle, D_Badulla}

coastal_districts == {D_Colombo, D_Gampaha, D_Kalutara, D_Galle, D_Matara, D_Hambantota}

(***************************************************************************)
(* Risk interpreter.                                                       *)
(***************************************************************************)
disaster_types == <<"flood", "landslide", "cyclone">>

DisasterTypes == Range(disaster_types)

RiskLevels == {"minimal", "low", "medium", "high", "critical"}

\* 1.0 as a number of ten-thousandths
ProbOne == 10000

Probabilities == 0..ProbOne

risk_thresholds ==
    [flood     |-> [low |-> 3000, medium |-> 5000, high |-> 7000, critical |-> 8500],
     landslide |-> [low |-> 2500, medium |-> 4500, high |-> 6500, critical |-> 8000],
     cyclone   |-> [low |-> 4000, medium |-> 6000, high |-> 7500, critical |-> 9000]]

GetRiskLevel_Strict(disaster_type, probability) ==
    LET thresholds == risk_thresholds[disaster_type] IN
    IF probability > thresholds.critical THEN "critical"
    ELSE IF probability > thresholds.high THEN "high"
    ELSE IF probability > thresholds.medium THEN "medium"
    ELSE IF probability > thresholds.low THEN "low"
    ELSE "minimal"

GetRiskLevel_Swapped(disaster_type, probability) ==
    LET thresholds == risk_thresholds[disaster_type] IN
    IF probability >= thresholds.critical THEN "critical"
    ELSE IF probability >= thresholds.high THEN "medium"
    ELSE IF probability >= thresholds.medium THEN "high"
    ELSE IF probability >= thresholds.low THEN "low"
    ELSE "minimal"

GetRiskLevel(disaster_type, probability) ==
    LET thresholds == risk_thresholds[disaster_type] IN
    IF probability >= thresholds.critical THEN "critical"
    ELSE IF probability >= thresholds.high THEN "high"
    ELSE IF probability >= thresholds.medium THEN "medium"
    ELSE IF probability >= thresholds.low THEN "low"
    ELSE "minimal"

GetConfidenceLevel_Symmetric(probability) ==
    IF probability >= 8000 \/ probability <= 2000 THEN "high"
    ELSE IF probability >= 6000 \/ probability < 4000 THEN "medium"
    ELSE "low"

GetConfidenceLevel(probability) ==
    IF probability >= 8000 \/ probability <= 2000 THEN "high"
    ELSE IF probability >= 6000 \/ probability <= 4000 THEN "medium"
    ELSE "low"

(***************************************************************************)
(* Recommendation rules.                                                   *)
(***************************************************************************)
HighBase ==
    [flood     |-> << "Move to higher ground immediately",
                      "Avoid walking or driving through flood waters",
                      "Monitor water levels continuously",
                      "Prepare emergency supplies" >>,
     landslide |-> << "Evacuate steep slope areas immediately",
                      "Stay away from hillsides and cliffs",
                      "Listen for unusual sounds (rumbling, cracking)",
                      "Alert local authorities" >>,
     cyclone   |-> << "Stay indoors and away from windows",
                      "Secure loose outdoor objects",
                      "Stock up on emergency supplies",
                      "Monitor weather updates continuously" >>]

Escalation ==
    [flood     |-> "Heavy rainfall warning - evacuate flood-prone areas",
     landslide |-> "Prolonged rainfall increases landslide risk significantly",
     cyclone   |-> "Extremely dangerous winds - take immediate shelter"]

MediumItems ==
    [flood     |-> << "Stay alert for changing weather conditions",
                      "Avoid low-lying areas",
                      "Prepare emergency kit" >>,
     landslide |-> << "Monitor slope stability",
                      "Be prepared to evacuate if conditions worsen" >>,
     cyclone   |-> << "Monitor weather forecasts",
                      "Secure outdoor items" >>]

\* a NaN cell of a frame row is an absent key of the row; NaN compares false
\* with every number
NotNaN(row, key) == key \in DOMAIN row

EscalationGate_Inclusive(disaster_type, weather_data) ==
    CASE disaster_type = "flood" ->
             NotNaN(weather_data, "rainfall") /\ weather_data.rainfall >= 100
      [] disaster_type = "landslide" ->
             NotNaN(weather_data, "rainfall") /\ weather_data.rainfall >= 75
      [] disaster_type = "cyclone" ->
             NotNaN(weather_data, "wind_speed") /\ weather_data.wind_speed >= 100
      [] OTHER                       -> FALSE

EscalationGate(disaster_type, weather_data) ==
    CASE disaster_type = "flood" ->
             NotNaN(weather_data, "rainfall") /\ weather_data.rainfall > 100
      [] disaster_type = "landslide" ->
             NotNaN(weather_data, "rainfall") /\ weather_data.rainfall > 75
      [] disaster_type = "cyclone" ->
             NotNaN(weather_data, "wind_speed") /\ weather_data.wind_speed > 100
      [] OTHER                       -> FALSE

GetRecommendations(disaster_type, risk_level, weather_data) ==
    IF risk_level \in {"critical", "high"} THEN
        IF disaster_type \in DisasterTypes THEN
            HighBase[disaster_type] \o
                (IF EscalationGate(disaster_type, weather_data)
                 THEN <<Escalation[disaster_type]>> ELSE <<>>)
        ELSE <<>>
    ELSE IF risk_level = "medium" THEN
        IF disaster_type \in DisasterTypes THEN MediumItems[disaster_type] ELSE <<>>
    ELSE <<>>

(***************************************************************************)
(* Artifacts on disk and what training stores in them (src/ai/             *)
(* train_model.py).  A fitted tree ensemble is a piecewise-constant        *)
(* function of the scaled features; the model fixes one such function per  *)
(* disaster type.                                                          *)
(***************************************************************************)
ModelFile == [flood |-> "flood_model.pkl", landslide |-> "landslide_model.pkl",
              cyclone |-> "cyclone_model.pkl"]

ModelFiles == {ModelFile[t] : t \in DisasterTypes}

AuxFiles == {"scaler.pkl", "label_encoders.pkl", "feature_columns.json",
             "model_metadata.json"}

Artifacts == ModelFiles \cup AuxFiles

FileStatus == {"ok", "missing", "corrupt"}

\* LabelEncoder.fit stores the sorted distinct labels
district_classes ==
    << D_Ampara, D_Anuradhapura, D_Badulla, D_Batticaloa, D_Colombo, D_Galle,
       D_Gampaha, D_Hambantota, D_Jaffna, D_Kalutara, D_Kandy, D_Kegalle,
       D_Kilinochchi, D_Kurunegala, D_Mannar, D_Matale, D_Matara, D_Monaragala,
       D_Mullaitivu, D_Nuwara_Eliya, D_Polonnaruwa, D_Puttalam, D_Ratnapura,
       D_Trincomalee, D_Vavuniya >>

rainfall_intensity_classes == <<"heavy", "light", "moderate">>

trained_feature_columns ==
    << "district_encoded", "month", "temperature", "humidity", "pressure",
       "wind_speed", "rainfall", "is_monsoon", "is_flood_prone",
       "is_landslide_prone", "is_coastal", "rainfall_intensity_encoded",
       "temp_humidity_interaction", "pressure_deficit", "wind_pressure_ratio" >>

\* StandardScaler: per-column mean_ and scale_ of the training frame, in the
\* unit of the column (see RowFeatures)
scaler_mean ==
    [district_encoded |-> 12, month |-> 6, temperature |-> 29, humidity |-> 76,
     pressure |-> 1013, wind_speed |-> 15, rainfall |-> 25, is_monsoon |-> 0,
     is_flood_prone |-> 0, is_landslide_prone |-> 0, is_coastal |-> 0,
     rainfall_intensity_encoded |-> 1, temp_humidity_interaction |-> 2200,
     pressure_deficit |-> 0, wind_pressure_ratio |-> 15000]

scaler_scale ==
    [district_encoded |-> 7, month |-> 3, temperature |-> 4, humidity |-> 15,
     pressure |-> 15, wind_speed |-> 18, rainfall |-> 30, is_monsoon |-> 1,
     is_flood_prone |-> 1, is_landslide_prone |-> 1, is_coastal |-> 1,
     rainfall_intensity_encoded |-> 1, temp_humidity_interaction |-> 500,
     pressure_deficit |-> 15, wind_pressure_ratio |-> 18000]

\* a fitted classifier: the first rule whose scaled column exceeds its cut
\* gives the probability of class 1, else the default leaf
classifier_rules ==
    [flood     |-> << [col |-> "rainfall", gt |-> 300, p |-> 9120],
                      [col |-> "rainfall", gt |-> 250, p |-> 8496],
                      [col |-> "rainfall", gt |-> 165, p |-> 7000],
                      [col |-> "rainfall", gt |-> 80,  p |-> 5500],
                      [col |-> "rainfall", gt |-> 0,   p |-> 3100] >>,
     landslide |-> << [col |-> "rainfall", gt |-> 200, p |-> 8000],
                      [col |-> "rainfall", gt |-> 150, p |-> 6640],
                      [col |-> "rainfall", gt |-> 100, p |-> 4500],
                      [col |-> "is_monsoon", gt |-> 50, p |-> 2600] >>,
     cyclone   |-> << [col |-> "wind_speed", gt |-> 450, p |-> 9350],
                      [col |-> "wind_speed", gt |-> 200, p |-> 6200] >>]

classifier_default == [flood |-> 180, landslide |-> 1200, cyclone |-> 2500]

(***************************************************************************)
(* Exceptions and outcomes of calls.                                       *)
(***************************************************************************)
NoError == [exc |-> "", text |-> "", field |-> "", districts |-> <<>>, via |-> <<>>]

Raise(exc, text, field, districts) ==
    [exc |-> exc, text |-> text, field |-> field, districts |-> districts, via |-> <<>>]

\* raise exc(f"{prefix}: {str(e)}")
Reraise(exc, prefix, e) == [e EXCEPT !.exc = exc, !.via = <<prefix>> \o @]

Failed(e) == [ok |-> FALSE, value |-> <<>>, err |-> e]

Returned(v) == [ok |-> TRUE, value |-> v, err |-> NoError]

(***************************************************************************)
(* load_models and the construction of the module-level service.           *)
(***************************************************************************)
LoadedArtifacts == ModelFiles \cup {"scaler.pkl", "label_encoders.pkl", "feature_columns.json"}

\* joblib.load / json.load raise on a file that exists and cannot be read;
\* load_models re-raises and __init__ fails
LoadRaises(fs) == \E a \in LoadedArtifacts : fs[a] = "corrupt"

LoadedModels(fs) == {t \in DisasterTypes : fs[ModelFile[t]] = "ok"}

LoadedScaler(fs) == IF fs["scaler.pkl"] = "ok" THEN "loaded" ELSE "None"

LoadedEncoders(fs) ==
    IF fs["label_encoders.pkl"] = "ok" THEN {"district", "rainfall_intensity"} ELSE {}

LoadedFeatureColumns(fs) ==
    IF fs["feature_columns.json"] = "ok" THEN trained_feature_columns ELSE <<>>

(***************************************************************************)
(* preprocess_input, for a dict (a one-row frame).  Units of the feature   *)
(* columns: the raw columns and pressure_deficit in their own unit,        *)
(* booleans as 0/1, temp_humidity_interaction in hundredths,               *)
(* wind_pressure_ratio in thousandths (truncated).  Scaled columns are in  *)
(* hundredths of a standard deviation.                                     *)
(***************************************************************************)
required_fields_NoHumidity ==
    <<"district", "temperature", "pressure", "wind_speed", "rainfall">>

required_fields ==
    <<"district", "temperature", "humidity", "pressure", "wind_speed", "rainfall">>

WeatherFields == {"temperature", "humidity", "pressure", "wind_speed", "rainfall"}

\* month of datetime.now() when the process starts
FirstMonth == 9

MonthNow(ticks) == ((FirstMonth - 1 + ticks) % 12) + 1

Bool01(b) == IF b THEN 1 ELSE 0

RainfallIntensity(rainfall) ==
    IF rainfall > 100 THEN "heavy" ELSE IF rainfall > 50 THEN "moderate" ELSE "light"

\* df['district'].apply(lambda x: x.title())
ValidatedDistrict(district) == StrTitle(district)

\* the engineered columns of the row; pressure = 0 makes the ratio infinite
\* (wind_speed # 0 in every observation of the model)
RowFeatures(row, district, month) ==
    [district_encoded           |-> IndexOf(district, district_classes) - 1,
     month                      |-> month,
     temperature                |-> row.temperature,
     humidity                   |-> row.humidity,
     pressure                   |-> row.pressure,
     wind_speed                 |-> row.wind_speed,
     rainfall                   |-> row.rainfall,
     is_monsoon                 |-> Bool01(month \in {5, 6, 7, 8, 9}),
     is_flood_prone             |-> Bool01(district \in flood_prone_districts),
     is_landslide_prone         |-> Bool01(district \in landslide_prone_districts),
     is_coastal                 |-> Bool01(district \in coastal_districts),
     rainfall_intensity_encoded |->
         IndexOf(RainfallIntensity(row.rainfall), rainfall_intensity_classes) - 1,
     temp_humidity_interaction  |-> row.temperature * row.humidity,
     pressure_deficit           |-> 1013 - row.pressure,
     wind_pressure_ratio        |->
         IF row.pressure = 0 THEN 0
         ELSE (row.wind_speed * 1000 * 1000) \div row.pressure]

InfiniteColumns(row) == IF row.pressure = 0 THEN {"wind_pressure_ratio"} ELSE {}

\* StandardScaler.transform on the selected columns
ScalerTransform(features, columns) ==
    [c \in Range(columns) |-> ((features[c] - scaler_mean[c]) * 100) \div scaler_scale[c]]

PreprocessError(e) == Failed(Reraise("ValueError", "Error preprocessing input", e))

\* df[column] on a frame without that column
ColumnKeyError(column) == Raise("KeyError", "column", column, <<>>)

\* the columns read by the feature engineering, in the order it reads them
engineered_reads == <<"temperature", "humidity", "pressure", "wind_speed">>

PreprocessInput(self, env, weather_data) ==
    LET missing  == SelectSeq(required_fields, LAMBDA f : f \notin DOMAIN weather_data)
        unread   == SelectSeq(engineered_reads, LAMBDA f : f \notin DOMAIN weather_data)
        month    == IF "month" \in DOMAIN weather_data THEN weather_data.month
                    ELSE MonthNow(env.ticks)
        district == ValidatedDistrict(weather_data.district)
        features == RowFeatures(weather_data, district, month)
        df_row   == [district |-> district, month |-> month,
                     temperature |-> weather_data.temperature,
                     humidity |-> weather_data.humidity,
                     pressure |-> weather_data.pressure,
                     wind_speed |-> weather_data.wind_speed,
                     rainfall |-> weather_data.rainfall]
    IN
    IF missing # <<>> THEN
        PreprocessError(Raise("ValueError", "Missing required field", missing[1], <<>>))
    ELSE IF "district" \notin DOMAIN weather_data THEN
        PreprocessError(ColumnKeyError("district"))
    ELSE IF district \notin Range(sri_lankan_districts) THEN
        PreprocessError(Raise("ValueError", "Invalid districts", "", <<district>>))
    ELSE IF "district" \notin self.label_encoders THEN
        PreprocessError(Raise("KeyError", "'district'", "", <<>>))
    ELSE IF IndexOf(district, district_classes) = 0 THEN
        PreprocessError(Raise("ValueError", "y contains previously unseen labels",
                              "", <<district>>))
    ELSE IF "rainfall" \notin DOMAIN weather_data THEN
        PreprocessError(ColumnKeyError("rainfall"))
    ELSE IF "rainfall_intensity" \notin self.label_encoders THEN
        PreprocessError(Raise("KeyError", "'rainfall_intensity'", "", <<>>))
    ELSE IF unread # <<>> THEN
        PreprocessError(ColumnKeyError(unread[1]))
    ELSE IF self.scaler = "None" THEN
        PreprocessError(Raise("AttributeError",
                              "'NoneType' object has no attribute 'transform'", "", <<>>))
    ELSE IF self.feature_columns = <<>> THEN
        PreprocessError(Raise("ValueError", "Found array with 0 feature(s)", "", <<>>))
    ELSE IF InfiniteColumns(weather_data) \cap Range(self.feature_columns) # {} THEN
        PreprocessError(Raise("ValueError", "Input X contains infinity", "", <<>>))
    ELSE
        Returned([X_scaled |-> <<ScalerTransform(features, self.feature_columns)>>,
                  df       |-> <<df_row>>])

\* the columns of pd.DataFrame(list of dicts): every key of every element; an
\* element without the key has NaN in that column
FrameColumns(rows) == UNION {DOMAIN rows[i] : i \in 1..Len(rows)}

\* Series.unique(): the values in the order of their first appearance
Unique(s) ==
    LET first == SelectSeq([i \in 1..Len(s) |-> i],
                           LAMBDA i : \A j \in 1..(i - 1) : s[j] # s[i])
    IN [k \in 1..Len(first) |-> s[first[k]]]

\* the feature columns that are NaN in a row whose cells nan_cells are NaN;
\* np.where(NaN > 100, ...) is 'light' and NaN.isin(...) is False, so the
\* encoded intensity and the monsoon flag are numbers
NaNFeatures(nan_cells) ==
    (nan_cells \cap (WeatherFields \cup {"month"}))
    \cup (IF {"temperature", "humidity"} \cap nan_cells # {}
          THEN {"temp_humidity_interaction"} ELSE {})
    \cup (IF "pressure" \in nan_cells THEN {"pressure_deficit"} ELSE {})
    \cup (IF {"wind_speed", "pressure"} \cap nan_cells # {}
          THEN {"wind_pressure_ratio"} ELSE {})

\* preprocess_input on a list of observations
PreprocessFrame(self, env, weather_data) ==
    LET n        == Len(weather_data)
        columns  == FrameColumns(weather_data)
        missing  == SelectSeq(required_fields, LAMBDA f : f \notin columns)
        unread   == SelectSeq(engineered_reads, LAMBDA f : f \notin columns)
        titled   == [i \in 1..n |-> ValidatedDistrict(weather_data[i].district)]
        invalid  == Unique(SelectSeq(titled,
                                     LAMBDA d : d \notin Range(sri_lankan_districts)))
        df       == [i \in 1..n |->
                        [c \in DOMAIN weather_data[i]
                               \cup (IF "month" \in columns THEN {} ELSE {"month"}) |->
                            IF c = "district" THEN titled[i]
                            ELSE IF c \in DOMAIN weather_data[i] THEN weather_data[i][c]
                            ELSE MonthNow(env.ticks)]]
        \* the cells of row i, 0 standing in for NaN
        cells(i) == [c \in WeatherFields \cup {"month"} |->
                        IF c \in DOMAIN df[i] THEN df[i][c] ELSE 0]
        nan(i)   == NaNFeatures((WeatherFields \cup {"month"}) \ DOMAIN df[i])
        x(i)     == LET scaled == ScalerTransform(
                                      RowFeatures(cells(i), titled[i], cells(i).month),
                                      self.feature_columns)
                    IN [c \in DOMAIN scaled \ nan(i) |-> scaled[c]]
    IN
    IF missing # <<>> THEN
        PreprocessError(Raise("ValueError", "Missing required field", missing[1], <<>>))
    ELSE IF "district" \notin columns THEN
        PreprocessError(ColumnKeyError("district"))
    ELSE IF \E i \in 1..n : "district" \notin DOMAIN weather_data[i] THEN
        PreprocessError(Raise("AttributeError",
                              "'float' object has no attribute 'title'", "", <<>>))
    ELSE IF invalid # <<>> THEN
        PreprocessError(Raise("ValueError", "Invalid districts", "", invalid))
    ELSE IF "district" \notin self.label_encoders THEN
        PreprocessError(Raise("KeyError", "'district'", "", <<>>))
    ELSE IF \E i \in 1..n : IndexOf(titled[i], district_classes) = 0 THEN
        PreprocessError(Raise("ValueError", "y contains previously unseen labels",
                              "", <<>>))
    ELSE IF "rainfall" \notin columns THEN
        PreprocessError(ColumnKeyError("rainfall"))
    ELSE IF "rainfall_intensity" \notin self.label_encoders THEN
        PreprocessError(Raise("KeyError", "'rainfall_intensity'", "", <<>>))
    ELSE IF unread # <<>> THEN
        PreprocessError(ColumnKeyError(unread[1]))
    ELSE IF self.scaler = "None" THEN
        PreprocessError(Raise("AttributeError",
                              "'NoneType' object has no attribute 'transform'", "", <<>>))
    ELSE IF self.feature_columns = <<>> THEN
        PreprocessError(Raise("ValueError", "Found array with 0 feature(s)", "", <<>>))
    ELSE IF \E i \in 1..n :
                /\ {"pressure", "wind_speed"} \subseteq DOMAIN weather_data[i]
                /\ InfiniteColumns(weather_data[i]) \cap Range(self.feature_columns) # {}
         THEN
        PreprocessError(Raise("ValueError", "Input X contains infinity", "", <<>>))
    ELSE
        Returned([X_scaled |-> [i \in 1..n |-> x(i)], df |-> df])

(***************************************************************************)
(* The classifiers.                                                        *)
(***************************************************************************)
\* what a fitted tree ensemble does with a NaN feature at predict time: the
\* input check raises, or the split sends the sample to one of its children
NanPolicies == {"raise", "left", "right"}

\* a feature that is NaN is absent from x
RECURSIVE FirstRule(_, _, _, _)
FirstRule(rules, x, nan, default) ==
    IF rules = <<>> THEN default
    ELSE IF (IF Head(rules).col \in DOMAIN x THEN x[Head(rules).col] > Head(rules).gt
             ELSE nan = "right")
         THEN Head(rules).p
    ELSE FirstRule(Tail(rules), x, nan, default)

\* model.predict_proba(X)[:, 1] for one row
PredictProba(disaster_type, x, nan) ==
    FirstRule(classifier_rules[disaster_type], x, nan, classifier_default[disaster_type])

\* model.predict(X) for one row: the class of largest probability, class 0 on a tie
Predict(disaster_type, x, nan) ==
    Bool01(PredictProba(disaster_type, x, nan) > ProbOne - PredictProba(disaster_type, x, nan))

\* round(prob, 3), in thousandths; a tie in the fourth decimal goes to the even
\* neighbour
Round3(prob) ==
    LET q == prob \div 10
        r == prob % 10
    IN IF r > 5 THEN q + 1
       ELSE IF r < 5 THEN q
       ELSE IF q % 2 = 0 THEN q ELSE q + 1

(***************************************************************************)
(* predict_risk and batch_predict.                                         *)
(***************************************************************************)
RECURSIVE Flatten(_)
Flatten(ss) == IF ss = <<>> THEN <<>> ELSE Head(ss) \o Flatten(Tail(ss))

\* every guidance string of the code, in source order
AllRecommendations ==
    Flatten([i \in 1..3 |-> HighBase[disaster_types[i]] \o <<Escalation[disaster_types[i]]>>])
    \o Flatten([i \in 1..3 |-> MediumItems[disaster_types[i]]])

HashSeeds == {0, 1}

Reverse(s) == [i \in 1..Len(s) |-> s[Len(s) + 1 - i]]

\* the order in which a set of str is iterated under the process's hash seed
HashOrder == [seed \in HashSeeds |->
                 IF seed = 0 THEN AllRecommendations ELSE Reverse(AllRecommendations)]

\* list(set(items))
ListOfSet(S, seed) == SelectSeq(HashOrder[seed], LAMBDA str : str \in S)

\* self.models.keys(): the loaded types in insertion order
ModelKeys(self) == SelectSeq(disaster_types, LAMBDA t : t \in self.models)

Recommendations_LastOnly(self, env, levels, row) ==
    LET keys == ModelKeys(self) IN
    IF keys = <<>> THEN <<>>
    ELSE ListOfSet(Range(GetRecommendations(keys[Len(keys)], levels[keys[Len(keys)]], row)),
                   env.seed)

\* the recommendations of one location: extended per loaded type, then deduplicated
Recommendations(self, env, levels, row) ==
    LET keys == ModelKeys(self) IN
    ListOfSet(Range(Flatten([k \in 1..Len(keys) |->
                                GetRecommendations(keys[k], levels[keys[k]], row)])),
              env.seed)

LocationPrediction(self, env, x, row) ==
    LET prob   == [t \in self.models |-> PredictProba(t, x, env.nan)]
        levels == [t \in self.models |-> GetRiskLevel(t, prob[t])]
    IN [location           |-> row.district,
        timestamp          |-> env.ticks,
        weather_conditions |-> [c \in WeatherFields \cap DOMAIN row |-> row[c]],
        risk_predictions   |->
            [t \in self.models |->
                [probability       |-> Round3(prob[t]),
                 risk_level        |-> levels[t],
                 confidence        |-> GetConfidenceLevel(prob[t]),
                 binary_prediction |-> Predict(t, x, env.nan) = 1]],
        recommendations    |-> Recommendations(self, env, levels, row)]

PredictRisk(self, env, weather_data) ==
    LET pre == PreprocessInput(self, env, weather_data) IN
    IF ~pre.ok THEN Failed(Reraise("Exception", "Error during prediction", pre.err))
    ELSE Returned([i \in 1..Len(pre.value.df) |->
                      LocationPrediction(self, env, pre.value.X_scaled[i], pre.value.df[i])])

\* predict_risk on a list of observations: one frame, one predict_proba per
\* model on all its rows
PredictRiskFrame(self, env, weather_data) ==
    LET pre == PreprocessFrame(self, env, weather_data) IN
    IF ~pre.ok THEN Failed(Reraise("Exception", "Error during prediction", pre.err))
    ELSE IF /\ self.models # {}
            /\ env.nan = "raise"
            /\ \E i \in 1..Len(pre.value.X_scaled) :
                   DOMAIN pre.value.X_scaled[i] # Range(self.feature_columns)
    THEN Failed(Reraise("Exception", "Error during prediction",
                        Raise("ValueError", "Input X contains NaN", "", <<>>)))
    ELSE Returned([i \in 1..Len(pre.value.df) |->
                      LocationPrediction(self, env, pre.value.X_scaled[i], pre.value.df[i])])

RECURSIVE BatchLoop(_, _, _, _, _)
BatchLoop(self, env, weather_data_list, i, all_predictions) ==
    IF i > Len(weather_data_list) THEN Returned(all_predictions)
    ELSE LET prediction == PredictRisk(self, env, weather_data_list[i]) IN
         IF ~prediction.ok
         THEN Failed(Reraise("Exception", "Error in batch prediction", prediction.err))
         ELSE BatchLoop(self, env, weather_data_list, i + 1,
                        all_predictions \o prediction.value)

RECURSIVE BatchLoop_Isolating(_, _, _, _, _)
BatchLoop_Isolating(self, env, weather_data_list, i, all_predictions) ==
    IF i > Len(weather_data_list) THEN Returned(all_predictions)
    ELSE LET prediction == PredictRisk(self, env, weather_data_list[i]) IN
         BatchLoop_Isolating(self, env, weather_data_list, i + 1,
                             all_predictions \o prediction.value)

RECURSIVE BatchLoop_Prepending(_, _, _, _, _)
BatchLoop_Prepending(self, env, weather_data_list, i, all_predictions) ==
    IF i > Len(weather_data_list) THEN Returned(all_predictions)
    ELSE LET prediction == PredictRisk(self, env, weather_data_list[i]) IN
         IF ~prediction.ok
         THEN Failed(Reraise("Exception", "Error in batch prediction", prediction.err))
         ELSE BatchLoop_Prepending(self, env, weather_data_list, i + 1,
                                   prediction.value \o all_predictions)

BatchPredict_Isolating(self, env, weather_data_list) ==
    BatchLoop_Isolating(self, env, weather_data_list, 1, <<>>)

BatchPredict_Prepending(self, env, weather_data_list) ==
    BatchLoop_Prepending(self, env, weather_data_list, 1, <<>>)

BatchPredict(self, env, weather_data_list) ==
    BatchLoop(self, env, weather_data_list, 1, <<>>)

(***************************************************************************)
(* Inputs of the model.                                                    *)
(***************************************************************************)
With(d, k, v) == [x \in DOMAIN d \cup {k} |-> IF x = k THEN v ELSE d[x]]

Without(d, k) == [x \in DOMAIN d \ {k} |-> d[x]]

S_colombo == <<"c","o","l","o","m","b","o">>
S_COLOMBO == <<"C","O","L","O","M","B","O">>
S_kandy == <<"k","a","n","d","y">>
S_gAlLe == <<"g","A","l","L","e">>
S_nuwara_eliya == <<"n","u","w","a","r","a"," ","e","l","i","y","a">>
S_NUWARA_ELIYA == <<"N","U","W","A","R","A"," ","E","L","I","Y","A">>
S_Unknown_City == <<"U","n","k","n","o","w","n"," ","C","i","t","y">>
S_unknown_city == <<"u","n","k","n","o","w","n"," ","c","i","t","y">>
S_Galle_space == <<"G","a","l","l","e"," ">>

RegionInputs ==
    {S_colombo, D_Colombo, S_COLOMBO, S_kandy, S_gAlLe, S_nuwara_eliya, S_NUWARA_ELIYA,
     S_Unknown_City, S_unknown_city, S_Galle_space, <<>>}

RainfallValues == {10, 50, 51, 60, 75, 76, 100, 101, 120}

WindValues == {5, 10, 60, 100, 101}

ScenarioA ==
    [district |-> S_colombo, temperature |-> 30, humidity |-> 90, pressure |-> 1000,
     wind_speed |-> 10, rainfall |-> 120, month |-> 6]

ScenarioB == With(With(ScenarioA, "rainfall", 10), "wind_speed", 5)

KandyNoMonth == Without(With(With(ScenarioA, "district", S_kandy), "rainfall", 76), "month")

NoHumidity == Without(ScenarioA, "humidity")

Observations ==
    {With(ScenarioA, "district", d) : d \in RegionInputs}
    \cup {With(ScenarioA, "rainfall", r) : r \in RainfallValues}
    \cup {With(ScenarioA, "wind_speed", w) : w \in WindValues}
    \cup {Without(ScenarioA, f) : f \in Range(required_fields) \cup {"month"}}
    \cup {Without(With(ScenarioA, "district", S_Unknown_City), f) : f \in WeatherFields}
    \cup {Without(NoHumidity, "rainfall"), Without(NoHumidity, "district")}
    \cup {ScenarioB, Without(ScenarioB, "month"), KandyNoMonth,
          With(ScenarioA, "pressure", 0),
          With(With(ScenarioA, "rainfall", 60), "wind_speed", 60)}

EmptyDict == [x \in {} |-> 0]

BatchObservations ==
    {ScenarioA, Without(ScenarioB, "month"), NoHumidity,
     With(ScenarioA, "district", S_Unknown_City)}

RECURSIVE SeqsUpTo(_, _)
SeqsUpTo(S, n) ==
    IF n = 0 THEN {<<>>}
    ELSE LET shorter == SeqsUpTo(S, n - 1)
         IN shorter \cup {Append(q, x) : q \in {r \in shorter : Len(r) = n - 1}, x \in S}

Batches == SeqsUpTo(BatchObservations, MaxBatch)

\* every content of model_dir
FileConfigs == [Artifacts -> FileStatus]

(***************************************************************************)
(* State machine.                                                          *)
(***************************************************************************)
NoCall == [method |-> "none", args |-> <<>>, at |-> 0, outcome |-> Returned(<<>>)]

NoResponse == [endpoint |-> "none", status |-> 0, body |-> EmptyDict]

NoProbe == [op |-> "none"]

Self == [models |-> models, scaler |-> scaler, label_encoders |-> label_encoders,
         feature_columns |-> feature_columns]

Env == [ticks |-> clock, seed |-> hash_seed, nan |-> nan_policy]

\* str(e) as the endpoints return it
Message(e) == [via |-> e.via, text |-> e.text, field |-> e.field, districts |-> e.districts]

PlainMessage(text) == [via |-> <<>>, text |-> text, field |-> "", districts |-> <<>>]

Init ==
    /\ files \in FileConfigs
    /\ clock = 0
    /\ hash_seed \in HashSeeds
    /\ nan_policy \in NanPolicies
    /\ prediction_service = "unset"
    /\ models = {}
    /\ scaler = "None"
    /\ label_encoders = {}
    /\ feature_columns = <<>>
    /\ call = NoCall
    /\ response = NoResponse
    /\ had_failure = FALSE
    /\ probe = NoProbe

\* import of the module: prediction_service = EmergencyPredictionService(), or
\* None when the constructor raises
Startup ==
    /\ prediction_service = "unset"
    /\ IF LoadRaises(files)
       THEN /\ prediction_service' = "None"
            /\ UNCHANGED <<models, scaler, label_encoders, feature_columns>>
       ELSE /\ prediction_service' = "object"
            /\ models' = LoadedModels(files)
            /\ scaler' = LoadedScaler(files)
            /\ label_encoders' = LoadedEncoders(files)
            /\ feature_columns' = LoadedFeatureColumns(files)
    /\ UNCHANGED <<files, clock, hash_seed, nan_policy, call, response, had_failure, probe>>

\* the calendar advances by a month
Tick ==
    /\ prediction_service # "unset"
    /\ clock < MaxTicks
    /\ clock' = clock + 1
    /\ UNCHANGED <<files, hash_seed, nan_policy, prediction_service, models, scaler,
                   label_encoders, feature_columns, call, response, had_failure, probe>>

\* a handler that replaced the encoders after answering a request with an error
ServiceUnchanged_Leaky ==
    /\ UNCHANGED <<files, clock, hash_seed, nan_policy, prediction_service, models, scaler,
                   feature_columns, probe>>
    /\ label_encoders' = IF response'.status = 400 THEN {} ELSE label_encoders

\* no handler assigns to the service object, the artifacts or the clock
ServiceUnchanged ==
    UNCHANGED <<files, clock, hash_seed, nan_policy, prediction_service, models, scaler,
                label_encoders, feature_columns, probe>>

\* bookkeeping of the answers given so far
Answered == had_failure' = (had_failure \/ response'.status >= 400)

HealthResponse(service, self, env) ==
    IF service = "None"
    THEN [endpoint |-> "/health", status |-> 500,
          body |-> [status |-> "unhealthy", error |-> PlainMessage("Models not loaded")]]
    ELSE [endpoint |-> "/health", status |-> 200,
          body |-> [status |-> "healthy", timestamp |-> env.ticks,
                    loaded_models |-> ModelKeys(self)]]

\* GET /health
HealthCheck ==
    /\ prediction_service # "unset"
    /\ response = NoResponse
    /\ response' = HealthResponse(prediction_service, Self, Env)
    /\ call' = NoCall
    /\ Answered
    /\ ServiceUnchanged

Unavailable(endpoint) ==
    [endpoint |-> endpoint, status |-> 500,
     body |-> [error |-> PlainMessage("Prediction service not available")]]

\* POST /predict
PredictEndpoint ==
    /\ prediction_service # "unset"
    /\ response = NoResponse
    /\ \E weather_data \in Observations \cup {EmptyDict} :
        IF prediction_service = "None" THEN
            /\ response' = Unavailable("/predict")
            /\ call' = NoCall
        ELSE IF weather_data = EmptyDict THEN
            /\ response' = [endpoint |-> "/predict", status |-> 400,
                            body |-> [error |-> PlainMessage("No weather data provided")]]
            /\ call' = NoCall
        ELSE LET outcome == PredictRisk(Self, Env, weather_data) IN
            /\ call' = [method |-> "predict_risk", args |-> <<weather_data>>,
                        at |-> clock, outcome |-> outcome]
            /\ response' =
                IF outcome.ok
                THEN [endpoint |-> "/predict", status |-> 200,
                      body |-> [success |-> TRUE, predictions |-> outcome.value,
                                timestamp |-> clock]]
                ELSE [endpoint |-> "/predict", status |-> 400,
                      body |-> [error |-> Message(outcome.err)]]
    /\ Answered
    /\ ServiceUnchanged

\* POST /predict with a JSON list as its body
PredictListEndpoint ==
    /\ prediction_service = "object"
    /\ response = NoResponse
    /\ \E weather_data \in Batches \ {<<>>} :
        LET outcome == PredictRiskFrame(Self, Env, weather_data) IN
        /\ call' = [method |-> "predict_risk(list)", args |-> weather_data,
                    at |-> clock, outcome |-> outcome]
        /\ response' =
            IF outcome.ok
            THEN [endpoint |-> "/predict", status |-> 200,
                  body |-> [success |-> TRUE, predictions |-> outcome.value,
                            timestamp |-> clock]]
            ELSE [endpoint |-> "/predict", status |-> 400,
                  body |-> [error |-> Message(outcome.err)]]
    /\ Answered
    /\ ServiceUnchanged

\* POST /predict/batch; a body that is not a list is a single observation here
BatchPredictEndpoint ==
    /\ prediction_service # "unset"
    /\ response = NoResponse
    /\ \E is_list \in BOOLEAN : \E weather_data_list \in Batches :
        /\ ~is_list => Len(weather_data_list) = 1
        /\ IF prediction_service = "None" THEN
               /\ response' = Unavailable("/predict/batch")
               /\ call' = NoCall
           ELSE IF weather_data_list = <<>> \/ ~is_list THEN
               /\ response' = [endpoint |-> "/predict/batch", status |-> 400,
                               body |-> [error |->
                                   PlainMessage("Invalid weather data list provided")]]
               /\ call' = NoCall
           ELSE LET outcome == BatchPredict(Self, Env, weather_data_list) IN
               /\ call' = [method |-> "batch_predict", args |-> weather_data_list,
                           at |-> clock, outcome |-> outcome]
               /\ response' =
                   IF outcome.ok
                   THEN [endpoint |-> "/predict/batch", status |-> 200,
                         body |-> [success |-> TRUE, predictions |-> outcome.value,
                                   count |-> Len(outcome.value), timestamp |-> clock]]
                   ELSE [endpoint |-> "/predict/batch", status |-> 400,
                         body |-> [error |-> Message(outcome.err)]]
    /\ Answered
    /\ ServiceUnchanged

\* get_model_info: json.load raises on a metadata file that cannot be read
ModelInfoResponse(self, fs) ==
    IF fs["model_metadata.json"] = "corrupt"
    THEN [endpoint |-> "/model/info", status |-> 400,
          body |-> [error |-> PlainMessage("JSONDecodeError")]]
    ELSE [endpoint |-> "/model/info", status |-> 200,
          body |-> [loaded_models |-> ModelKeys(self),
                    supported_districts |-> sri_lankan_districts,
                    feature_count |-> Len(self.feature_columns),
                    risk_thresholds |-> risk_thresholds,
                    metadata |-> fs["model_metadata.json"] = "ok"]]

\* GET /model/info
ModelInfo ==
    /\ prediction_service # "unset"
    /\ response = NoResponse
    /\ response' = IF prediction_service = "None" THEN Unavailable("/model/info")
                   ELSE ModelInfoResponse(Self, files)
    /\ call' = NoCall
    /\ Answered
    /\ ServiceUnchanged

\* GET /districts
GetDistricts ==
    /\ prediction_service # "unset"
    /\ response = NoResponse
    /\ response' = IF prediction_service = "None" THEN Unavailable("/districts")
                   ELSE [endpoint |-> "/districts", status |-> 200,
                         body |-> [districts |-> sri_lankan_districts,
                                   count |-> Len(sri_lankan_districts)]]
    /\ call' = NoCall
    /\ Answered
    /\ ServiceUnchanged

\* the response leaves the server; the next request can be handled
Deliver ==
    /\ response # NoResponse
    /\ response' = NoResponse
    /\ call' = NoCall
    /\ UNCHANGED had_failure
    /\ ServiceUnchanged

Next ==
    \/ Startup
    \/ Tick
    \/ HealthCheck
    \/ PredictEndpoint
    \/ PredictListEndpoint
    \/ BatchPredictEndpoint
    \/ ModelInfo
    \/ GetDistricts
    \/ Deliver

Spec == Init /\ [][Next]_vars

(***************************************************************************)
(* Direct calls of the pure helpers, over their whole input domain.        *)
(***************************************************************************)
InitPure ==
    /\ files = [a \in Artifacts |-> "ok"]
    /\ clock = 0
    /\ hash_seed = 0
    /\ nan_policy = "raise"
    /\ prediction_service = "unset"
    /\ models = {}
    /\ scaler = "None"
    /\ label_encoders = {}
    /\ feature_columns = <<>>
    /\ call = NoCall
    /\ response = NoResponse
    /\ had_failure = FALSE
    /\ probe = NoProbe

ProbeUnchanged ==
    UNCHANGED <<files, clock, hash_seed, nan_policy, prediction_service, models, scaler,
                label_encoders, feature_columns, call, response, had_failure>>

\* _get_risk_level and _get_confidence_level on one probability
ClassifyProbe ==
    /\ probe = NoProbe
    /\ \E t \in DisasterTypes, p \in Probabilities :
        probe' = [op |-> "classify", disaster_type |-> t, probability |-> p,
                  risk_level |-> GetRiskLevel(t, p),
                  confidence |-> GetConfidenceLevel(p)]
    /\ ProbeUnchanged

\* _get_recommendations on one (type, level, observation)
RecommendProbe ==
    /\ probe = NoProbe
    /\ \E t \in DisasterTypes, level \in RiskLevels,
          r \in RainfallValues, w \in WindValues :
        probe' = [op |-> "recommend", disaster_type |-> t, risk_level |-> level,
                  rainfall |-> r, wind_speed |-> w,
                  recommendations |->
                      GetRecommendations(t, level, [rainfall |-> r, wind_speed |-> w])]
    /\ ProbeUnchanged

\* _get_risk_level on two probabilities of one disaster type: the next one on
\* the grid, or a threshold of the type above the first
CompareProbe ==
    /\ probe = NoProbe
    /\ \E t \in DisasterTypes, p \in Probabilities \ {ProbOne} :
       \E q \in {p + 1} \cup {risk_thresholds[t][l] : l \in DOMAIN risk_thresholds[t]} :
        /\ p < q
        /\ probe' = [op |-> "compare", disaster_type |-> t, p |-> p, q |-> q,
                     level_p |-> GetRiskLevel(t, p), level_q |-> GetRiskLevel(t, q)]
    /\ ProbeUnchanged

NextPure == ClassifyProbe \/ RecommendProbe \/ CompareProbe

SpecPure == InitPure /\ [][NextPure]_vars

(***************************************************************************)
(* Properties.                                                             *)
(***************************************************************************)
\* the results of the service-method call of the last request, if it returned
Results == IF call.method # "none" /\ call.outcome.ok THEN Range(call.outcome.value) ELSE {}

\* the environment in which that call ran
CallEnv == [ticks |-> call.at, seed |-> hash_seed, nan |-> nan_policy]

SansTimestamp(r) == [k \in DOMAIN r \ {"timestamp"} |-> r[k]]

CaseInsensitiveDistricts(str) ==
    {d \in Range(sri_lankan_districts) : StrLower(d) = StrLower(str)}

\* C1: for every disaster type and probability, _get_risk_level returns the
\* highest level whose threshold (flood 0.3/0.5/0.7/0.85, landslide
\* 0.25/0.45/0.65/0.8, cyclone 0.4/0.6/0.75/0.9) the probability reaches, a
\* probability equal to a threshold getting the higher level, and minimal below
\* the low threshold.
C1_RiskLadder ==
    probe.op = "classify" =>
        LET p  == probe.probability
            th == CASE probe.disaster_type = "flood"     -> <<3000, 5000, 7000, 8500>>
                    [] probe.disaster_type = "landslide" -> <<2500, 4500, 6500, 8000>>
                    [] probe.disaster_type = "cyclone"   -> <<4000, 6000, 7500, 9000>>
        IN /\ (probe.risk_level = "critical") <=> (p >= th[4])
           /\ (probe.risk_level = "high")     <=> (th[3] <= p /\ p < th[4])
           /\ (probe.risk_level = "medium")   <=> (th[2] <= p /\ p < th[3])
           /\ (probe.risk_level = "low")      <=> (th[1] <= p /\ p < th[2])
           /\ (probe.risk_level = "minimal")  <=> (p < th[1])

C1_Witness ==
    /\ probe.op = "classify"
    /\ probe.disaster_type = "landslide"
    /\ probe.probability = 6500
    /\ probe.risk_level = "high"

\* C2: _get_confidence_level returns high exactly on [0.8,1] and [0,0.2],
\* medium exactly on [0.6,0.8) and (0.2,0.4], low exactly on (0.4,0.6),
\* whatever the disaster type.
C2_ConfidenceBands ==
    probe.op = "classify" =>
        LET p == probe.probability IN
        /\ (probe.confidence = "high")   <=> (p >= 8000 \/ p <= 2000)
        /\ (probe.confidence = "medium") <=> ((6000 <= p /\ p < 8000) \/ (2000 < p /\ p <= 4000))
        /\ (probe.confidence = "low")    <=> (4000 < p /\ p < 6000)
        /\ probe.confidence \in {"high", "medium", "low"}

C2_Witness ==
    /\ probe.op = "classify"
    /\ probe.disaster_type = "cyclone"
    /\ probe.probability = 4000
    /\ probe.confidence = "medium"

\* C3: _get_recommendations returns nothing for low and minimal, the type's
\* fixed 2-3 precautionary items without any escalation message for medium, and
\* for high and critical the type's 4 base items followed by the type's
\* escalation message exactly when its gate holds (flood rainfall > 100,
\* landslide rainfall > 75, cyclone wind_speed > 100, strictly).
C3_Recommendations ==
    probe.op = "recommend" =>
        LET t    == probe.disaster_type
            recs == probe.recommendations
            gate == CASE t = "flood"     -> probe.rainfall > 100
                      [] t = "landslide" -> probe.rainfall > 75
                      [] t = "cyclone"   -> probe.wind_speed > 100
            escalations == {Escalation[u] : u \in DisasterTypes}
        IN /\ probe.risk_level \in {"low", "minimal"} => recs = <<>>
           /\ probe.risk_level = "medium" =>
                /\ recs = MediumItems[t]
                /\ Len(recs) \in {2, 3}
                /\ Range(recs) \cap escalations = {}
           /\ probe.risk_level \in {"high", "critical"} =>
                /\ SubSeq(recs, 1, 4) = HighBase[t]
                /\ Range(HighBase[t]) \cap escalations = {}
                /\ gate => recs = HighBase[t] \o <<Escalation[t]>>
                /\ ~gate => recs = HighBase[t]

C3_Witness ==
    /\ probe.op = "recommend"
    /\ probe.disaster_type = "flood"
    /\ probe.risk_level = "high"
    /\ probe.rainfall = 100
    /\ Len(probe.recommendations) = 4

\* C4: in every result of predict_risk the recommendations hold no string
\* twice, are as a set the union over the loaded types of the type's
\* recommendations for its risk level and the observation, and are empty
\* exactly when every loaded type's level is low or minimal.
C4_RecommendationUnion ==
    \A r \in Results :
        /\ NoDuplicates(r.recommendations)
        /\ DOMAIN r.risk_predictions = models
        /\ Range(r.recommendations) =
               UNION {Range(GetRecommendations(t, r.risk_predictions[t].risk_level,
                                               r.weather_conditions)) : t \in models}
        /\ (r.recommendations = <<>>) <=>
               (\A t \in models : r.risk_predictions[t].risk_level \in {"low", "minimal"})

C4_Witness ==
    /\ call.method = "predict_risk"
    /\ call.outcome.ok
    /\ models = DisasterTypes
    /\ \E r \in Results :
        /\ r.risk_predictions["flood"].risk_level = "medium"
        /\ r.risk_predictions["cyclone"].risk_level = "medium"
        /\ r.risk_predictions["landslide"].risk_level = "medium"
        /\ Len(r.recommendations) = 7

\* C5: predict_risk on an observation that lacks one of the five weather fields
\* fails with the missing-field validation error, the message names a field the
\* observation lacks (the weather field itself when the district is present,
\* that very field when it is the only one missing), and no result is returned,
\* whatever the district is.
C5_MissingField ==
    (call.method = "predict_risk" /\ WeatherFields \ DOMAIN call.args[1] # {}) =>
        LET obs     == call.args[1]
            missing == ({"district"} \cup WeatherFields) \ DOMAIN obs
        IN /\ ~call.outcome.ok
           /\ call.outcome.value = <<>>
           /\ call.outcome.err.text = "Missing required field"
           /\ call.outcome.err.field \in missing
           /\ "district" \in DOMAIN obs => call.outcome.err.field \in WeatherFields
           /\ Cardinality(missing) = 1 => missing = {call.outcome.err.field}
           /\ response.status = 400
           /\ DOMAIN response.body = {"error"}
           /\ response.body.error.field = call.outcome.err.field

C5_Witness ==
    /\ call.method = "predict_risk"
    /\ call.args[1] = Without(With(ScenarioA, "district", S_Unknown_City), "humidity")
    /\ call.outcome.err.field = "humidity"
    /\ response.status = 400

\* C6: with the required fields present, predict_risk passes region validation
\* exactly when the district equals one of the 25 regions up to letter case; a
\* returned result carries the canonical name of that region as location, and a
\* district outside the set yields the invalid-district error naming it and no
\* result.
C6_RegionValidation ==
    (call.method = "predict_risk"
        /\ {"district"} \cup WeatherFields \subseteq DOMAIN call.args[1]) =>
        LET obs      == call.args[1]
            matches  == CaseInsensitiveDistricts(obs.district)
            rejected == ~call.outcome.ok /\ call.outcome.err.text = "Invalid districts"
        IN /\ rejected <=> (matches = {})
           /\ rejected =>
                /\ call.outcome.value = <<>>
                /\ Len(call.outcome.err.districts) = 1
                /\ StrLower(call.outcome.err.districts[1]) = StrLower(obs.district)
                /\ response.status = 400
                /\ DOMAIN response.body = {"error"}
                /\ response.body.error.districts = call.outcome.err.districts
           /\ call.outcome.ok =>
                /\ Len(call.outcome.value) = 1
                /\ matches = {call.outcome.value[1].location}
           /\ (matches # {} /\ scaler = "loaded" /\ label_encoders # {}
                 /\ feature_columns # <<>> /\ obs.pressure # 0) => call.outcome.ok

C6_Witness ==
    /\ call.method = "predict_risk"
    /\ "district" \in DOMAIN call.args[1]
    /\ call.args[1].district = S_NUWARA_ELIYA
    /\ call.outcome.ok
    /\ call.outcome.value[1].location = D_Nuwara_Eliya

\* C7: batch_predict on n observations that are each valid returns n results in
\* input order, the i-th being (apart from its timestamp) the result of
\* predict_risk on the i-th observation alone.
C7_BatchIsPerItem ==
    (/\ call.method = "batch_predict"
     /\ \A i \in 1..Len(call.args) : PredictRisk(Self, CallEnv, call.args[i]).ok) =>
        /\ call.outcome.ok
        /\ Len(call.outcome.value) = Len(call.args)
        /\ \A i \in 1..Len(call.args) :
              SansTimestamp(call.outcome.value[i]) =
                  SansTimestamp(PredictRisk(Self, CallEnv, call.args[i]).value[1])
        /\ response.status = 200
        /\ response.body.predictions = call.outcome.value
        /\ response.body.count = Len(call.args)

C7_Witness ==
    /\ call.method = "batch_predict"
    /\ call.args = <<Without(ScenarioB, "month"), ScenarioA>>
    /\ call.outcome.ok
    /\ Len(call.outcome.value) = 2
    /\ call.outcome.value[1] # call.outcome.value[2]

\* C8: batch_predict on a batch of which one observation fails fails as a
\* whole: it raises, and the caller gets an error and no result for any
\* observation of the batch.
C8_BatchAborts ==
    (/\ call.method = "batch_predict"
     /\ \E i \in 1..Len(call.args) : ~PredictRisk(Self, CallEnv, call.args[i]).ok) =>
        /\ ~call.outcome.ok
        /\ call.outcome.value = <<>>
        /\ Head(call.outcome.err.via) = "Error in batch prediction"
        /\ response.status # 200
        /\ DOMAIN response.body = {"error"}

C8_Witness ==
    /\ call.method = "batch_predict"
    /\ call.args = <<ScenarioA, NoHumidity>>
    /\ scaler = "loaded" /\ label_encoders # {} /\ feature_columns # <<>>
    /\ ~call.outcome.ok
    /\ response.status = 400

\* C9: when one type's model file is missing or unreadable and another type's
\* model file loads, the service starts and every result holds risk predictions
\* for exactly the types whose model file loads.
C9_GracefulDegradation ==
    (/\ prediction_service # "unset"
     /\ \A a \in AuxFiles : files[a] = "ok"
     /\ \E t \in DisasterTypes : files[ModelFile[t]] # "ok"
     /\ \E t \in DisasterTypes : files[ModelFile[t]] = "ok") =>
        /\ prediction_service = "object"
        /\ \A r \in Results :
              DOMAIN r.risk_predictions = {t \in DisasterTypes : files[ModelFile[t]] = "ok"}

\* C10: after start-up with zero models loaded, the health check reports
\* unhealthy and no prediction request gets a successful answer.
C10_HealthNeedsModel ==
    (prediction_service # "unset" /\ models = {}) =>
        /\ response.endpoint = "/health" => response.body.status = "unhealthy"
        /\ response.endpoint \in {"/predict", "/predict/batch"} => response.status # 200

\* C11: when the scaler or the label encoders are missing at start-up, the
\* service does not start or its health check reports unhealthy, and no
\* prediction request gets a successful answer.
C11_MissingPreprocessor ==
    (/\ prediction_service # "unset"
     /\ \E a \in {"scaler.pkl", "label_encoders.pkl"} : files[a] = "missing") =>
        /\ \/ prediction_service = "None"
           \/ response.endpoint = "/health" => response.body.status = "unhealthy"
        /\ response.endpoint \in {"/predict", "/predict/batch"} => response.status # 200

\* the service object as the constructor built it from the artifact files
AsLoaded ==
    [models |-> LoadedModels(files), scaler |-> LoadedScaler(files),
     label_encoders |-> LoadedEncoders(files),
     feature_columns |-> LoadedFeatureColumns(files)]

ValidationFailures ==
    {"Missing required field", "Invalid districts", "No weather data provided",
     "Invalid weather data list provided"}

\* error texts of a server that is at fault: an encoder, the scaler or the
\* feature list was not loaded, or the service object does not exist
InternalFailures ==
    {"'district'", "'rainfall_intensity'",
     "'NoneType' object has no attribute 'transform'",
     "Found array with 0 feature(s)", "Prediction service not available"}

\* C13: a prediction request that fails validation is answered with a status
\* in the 4xx range, and one that fails for an internal reason is answered
\* with a status in the 5xx range, never with a client error.
C13_ErrorClasses ==
    (/\ response.endpoint \in {"/predict", "/predict/batch"}
     /\ "error" \in DOMAIN response.body) =>
        /\ response.body.error.text \in ValidationFailures =>
               response.status \in 400..499
        /\ response.body.error.text \in InternalFailures =>
               response.status \in 500..599

\* the order of the risk levels
RiskRank == [minimal |-> 0, low |-> 1, medium |-> 2, high |-> 3, critical |-> 4]

C16_LevelOfReportedProbability ==
    \A r \in Results : \A t \in DOMAIN r.risk_predictions :
        r.risk_predictions[t].risk_level =
            GetRiskLevel(t, r.risk_predictions[t].probability * 10)

\* C15: predict_risk on a whole list of observations has the outcome of
\* batch_predict on that list: both fail, or both return the same results
\* in the same order, timestamps aside.
C15_ListSameAsBatch ==
    call.method = "predict_risk(list)" =>
        LET batch == BatchPredict(Self, CallEnv, call.args) IN
        /\ call.outcome.ok = batch.ok
        /\ call.outcome.ok =>
              /\ Len(call.outcome.value) = Len(batch.value)
              /\ \A i \in 1..Len(batch.value) :
                    SansTimestamp(call.outcome.value[i]) = SansTimestamp(batch.value[i])

====
